---- MODULE Spec2Model ----
(***************************************************************************)
(* SlowAPI router (src/main/server/slowapi/router.py): PathRule            *)
(* compilation and matching, App composition and dispatch, and the WSGI    *)
(* adapter App.__call__.                                                   *)
(*                                                                         *)
(* A Python str is a sequence of one-character strings, a list is a        *)
(* sequence, a dict is a function.  A Python object of varying type is a   *)
(* record [t |-> type name, v |-> payload].                                *)
(***************************************************************************)
EXTENDS Integers, Sequences, FiniteSets, TLC

\* ------------------------------------------------------------------------
\* Python values
\* ------------------------------------------------------------------------

PyNone == [t |-> "None", v |-> 0]
StrV(s) == [t |-> "str", v |-> s]
IntV(n) == [t |-> "int", v |-> n]
FloatV(n) == [t |-> "float", v |-> n]
\* inspect._empty: no annotation / no default
Empty == [t |-> "_empty", v |-> 0]

\* an update that keeps the entries d already has
DictUpdate_keep_existing(d, other) ==
  [k \in (DOMAIN d) \cup (DOMAIN other) |-> IF k \in DOMAIN d THEN d[k] ELSE other[k]]

\* dict.update: keys of other overwrite keys of d
DictUpdate(d, other) ==
  [k \in (DOMAIN d) \cup (DOMAIN other) |-> IF k \in DOMAIN other THEN other[k] ELSE d[k]]

\* dict.get(key, None)
DictGet(d, key) == IF key \in DOMAIN d THEN d[key] ELSE PyNone

EmptyDict == [k \in {} |-> PyNone]

\* ------------------------------------------------------------------------
\* Strings
\* ------------------------------------------------------------------------

Digits == <<"0", "1", "2", "3", "4", "5", "6", "7", "8", "9">>

IsDigit(c) == \E i \in 1..Len(Digits) : Digits[i] = c

DigitValue(c) == (CHOOSE i \in 1..Len(Digits) : Digits[i] = c) - 1

RECURSIVE DigitsValue(_)
DigitsValue(s) ==
  IF Len(s) = 0 THEN 0
  ELSE 10 * DigitsValue(SubSeq(s, 1, Len(s) - 1)) + DigitValue(s[Len(s)])

\* the text is an optionally signed, non-empty run of decimal digits
IsIntLiteral(s) ==
  LET body == IF Len(s) > 0 /\ s[1] \in {"+", "-"} THEN SubSeq(s, 2, Len(s)) ELSE s
  IN  Len(body) > 0 /\ \A i \in 1..Len(body) : IsDigit(body[i])

\* int(text) for a text that is an integer literal
IntLiteralValue(s) ==
  IF s[1] = "-" THEN 0 - DigitsValue(SubSeq(s, 2, Len(s)))
  ELSE IF s[1] = "+" THEN DigitsValue(SubSeq(s, 2, Len(s)))
  ELSE DigitsValue(s)

\* str.split(sep): the pieces between the separators, empty pieces included
RECURSIVE split(_, _)
split(s, sep) ==
  IF \A i \in 1..Len(s) : s[i] # sep THEN <<s>>
  ELSE LET k == CHOOSE i \in 1..Len(s) : s[i] = sep /\ \A j \in 1..(i - 1) : s[j] # sep
       IN  <<SubSeq(s, 1, k - 1)>> \o split(SubSeq(s, k + 1, Len(s)), sep)

NonEmptyElem(elem) == Len(elem) > 0

\* ------------------------------------------------------------------------
\* PathRule.__init__
\* ------------------------------------------------------------------------

WildcardElem == <<"{", "*", "}">>

\* self.path after the loop over rule.split('/')
RulePathElems(rule) == SelectSeq(split(rule, "/"), NonEmptyElem)

TakeExtraPath(rule) ==
  LET p == RulePathElems(rule) IN Len(p) > 0 /\ p[Len(p)] = WildcardElem

\* self.path after the wildcard marker was deleted
RulePathStripped(rule) ==
  LET p == RulePathElems(rule)
  IN  IF TakeExtraPath(rule) THEN SubSeq(p, 1, Len(p) - 1) ELSE p

IsPathParamElem(elem) == Len(elem) > 2 /\ elem[1] = "{" /\ elem[Len(elem)] = "}"

\* an entry of self.path: a literal element, or None at a placeholder position
PathLiteral(elem) == [none |-> FALSE, v |-> elem]
PathNone == [none |-> TRUE, v |-> <<>>]

NoParam == <<>>

\* the name of the last parameter (after self) whose annotation is in kinds
SpecialParam(func_signature, kinds) ==
  LET idx == {i \in 2..Len(func_signature) : func_signature[i].annotation \in kinds}
  IN  IF idx = {} THEN NoParam
      ELSE func_signature[CHOOSE i \in idx : \A j \in idx : j <= i].name

SpecialAnnotations == {"Request", "bytes", "JSON", "DictJSON", "list", "dict"}

IsPlainParam(param) == param.annotation \notin SpecialAnnotations

\* str.upper on the method names the decorators pass
upper(method) ==
  CASE method = "get" -> "GET"
    [] method = "post" -> "POST"
    [] method = "delete" -> "DELETE"
    [] OTHER -> method

PathRule(rule, method, func_signature, status_code) ==
  LET stripped == RulePathStripped(rule)
      params == SubSeq(func_signature, 2, Len(func_signature))
  IN  [ rule_str |-> rule,
        method |-> upper(method),
        status_code |-> status_code,
        path |-> [pos \in 1..Len(stripped) |->
                    IF IsPathParamElem(stripped[pos]) THEN PathNone
                    ELSE PathLiteral(stripped[pos])],
        path_params |-> [pos \in {p \in 1..Len(stripped) : IsPathParamElem(stripped[p])} |->
                    SubSeq(stripped[pos], 2, Len(stripped[pos]) - 1)],
        param_attributes |-> SelectSeq(params, IsPlainParam),
        take_extra_path |-> TakeExtraPath(rule),
        request_param |-> SpecialParam(func_signature, {"Request"}),
        bytes_body_param |-> SpecialParam(func_signature, {"bytes"}),
        json_body_param |-> SpecialParam(func_signature, {"JSON", "DictJSON"}),
        path_param |-> SpecialParam(func_signature, {"list"}),
        query_param |-> SpecialParam(func_signature, {"dict"}) ]

\* ------------------------------------------------------------------------
\* PathRule.match
\* ------------------------------------------------------------------------

\* str(n) for a natural number
RECURSIVE FormatNat(_)
FormatNat(n) ==
  IF n < 10 THEN <<Digits[n + 1]>>
  ELSE FormatNat(n \div 10) \o <<Digits[(n % 10) + 1]>>

\* attr.annotation(value): the declared type called with the value found.
\* ok = FALSE when the call raises.  The texts the model feeds in are runs of
\* letters or integer literals.
Coerce(annotation, value) ==
  CASE annotation = "int" ->
         IF value.t = "int" THEN [ok |-> TRUE, value |-> value]
         ELSE IF value.t = "float" THEN [ok |-> TRUE, value |-> IntV(value.v)]
         ELSE IF value.t = "str" /\ IsIntLiteral(value.v)
           THEN [ok |-> TRUE, value |-> IntV(IntLiteralValue(value.v))]
         ELSE [ok |-> FALSE, value |-> PyNone]
    [] annotation = "float" ->
         IF value.t \in {"int", "float"} THEN [ok |-> TRUE, value |-> FloatV(value.v)]
         ELSE IF value.t = "str" /\ IsIntLiteral(value.v)
           THEN [ok |-> TRUE, value |-> FloatV(IntLiteralValue(value.v))]
         ELSE [ok |-> FALSE, value |-> PyNone]
    [] annotation = "str" ->
         IF value.t = "str" THEN [ok |-> TRUE, value |-> value]
         ELSE IF value.t = "int" /\ value.v >= 0
           THEN [ok |-> TRUE, value |-> StrV(FormatNat(value.v))]
         ELSE [ok |-> FALSE, value |-> PyNone]
    \* typing.Optional[...] cannot be called
    [] OTHER -> [ok |-> FALSE, value |-> PyNone]

MatchNone == [kind |-> "None", kwargs |-> EmptyDict, exc |-> ""]
MatchArgs(kwargs) == [kind |-> "kwargs", kwargs |-> kwargs, exc |-> ""]
MatchRaise(exc) == [kind |-> "raise", kwargs |-> EmptyDict, exc |-> exc]

\* the length check without the loop over the missing positions
LengthMatch_no_short_check(self, request) ==
  Len(request.path) # Len(self.path) =>
    ~(Len(request.path) > Len(self.path) /\ ~self.take_extra_path)

\* lines 80-86: the length check passes
LengthMatch(self, request) ==
  Len(request.path) # Len(self.path) =>
    /\ ~(Len(request.path) > Len(self.path) /\ ~self.take_extra_path)
    /\ \A k \in (Len(request.path) + 1)..Len(self.path) : self.path[k].none

\* the comparison of the literal elements left out
PathNameMatch_any_literal(self, request) == TRUE

\* lines 90-98: no literal element differs from the request's element
PathNameMatch(self, request) ==
  \A pos \in 1..Len(request.path) :
    \/ pos > Len(self.path)
    \/ self.path[pos].none
    \/ self.path[pos].v = request.path[pos]

\* lines 89-98: params, the values captured at the placeholder positions
PathParams(self, request) ==
  LET captured == {pos \in DOMAIN self.path_params : pos <= Len(request.path)}
      names == {self.path_params[pos] : pos \in captured}
  IN  [name \in names |->
         LET last == CHOOSE pos \in captured :
                       /\ self.path_params[pos] = name
                       /\ \A q \in captured : self.path_params[q] = name => q <= pos
         IN  StrV(request.path[last])]

\* lines 105-107: the value looked up for one plain parameter
FoundValue(params, attr) ==
  LET value == DictGet(params, attr.name)
  IN  IF value.t = "None" /\ attr.default.t # "_empty" THEN attr.default ELSE value

\* line 108: the type is called on the value
NeedsCoercion(params, attr) ==
  FoundValue(params, attr).t # "None" /\ attr.annotation # "_empty"

\* lines 104-115: kwargs[pname]
PlainValue(params, attr) ==
  IF NeedsCoercion(params, attr)
    THEN Coerce(attr.annotation, FoundValue(params, attr)).value
    ELSE FoundValue(params, attr)

\* no type call raises
CoercionFails_never(self, params) == FALSE

\* lines 109-114: some plain parameter's type call raises
CoercionFails(self, params) ==
  \E i \in 1..Len(self.param_attributes) :
    LET attr == self.param_attributes[i]
    IN  NeedsCoercion(params, attr) /\ ~Coerce(attr.annotation, FoundValue(params, attr)).ok

PlainKwargs(self, params) ==
  LET attrs == self.param_attributes
      names == {attrs[i].name : i \in 1..Len(attrs)}
  IN  [name \in names |->
         PlainValue(params, attrs[CHOOSE i \in 1..Len(attrs) : attrs[i].name = name])]

\* a list or dict object: shared is TRUE for the object the request holds,
\* FALSE for an object of its own
ListOf(request) == [t |-> "list", v |-> request.path, shared |-> TRUE]
DictOf(request) == [t |-> "dict", v |-> request.query, shared |-> TRUE]

\* the argument is the object of the request itself
deepcopy_same_object(obj) == obj

\* copy.deepcopy(obj): an equal object of its own
deepcopy(obj) == [obj EXCEPT !.shared = FALSE]

OneArg(pname, value) == IF pname = NoParam THEN EmptyDict ELSE [k \in {pname} |-> value]

\* line 123: self.param_attributes[self.json_body_param] finds an entry
JsonParamLookupOk(self) ==
  \E i \in 1..Len(self.param_attributes) :
    self.param_attributes[i].name = self.json_body_param

\* doc.value() of the document wrapper built from the body
DocValue(body) ==
  IF body.t = "bytes" /\ body.v = <<"{", "}">> THEN [t |-> "dict", v |-> EmptyDict]
  ELSE PyNone

\* lines 75-134: the checks made on a request that is not aborted
MatchActive(self, request) ==
  IF request.method # self.method THEN MatchNone
  ELSE IF ~LengthMatch(self, request) THEN MatchNone
  ELSE IF ~PathNameMatch(self, request) THEN MatchNone
  ELSE
    LET params == DictUpdate(PathParams(self, request), request.query)
        kw1 == DictUpdate(PlainKwargs(self, params),
                          OneArg(self.request_param, [t |-> "Request", v |-> 0]))
        kw2 == DictUpdate(kw1, OneArg(self.bytes_body_param, request.body))
        kw3 == DictUpdate(kw2, OneArg(self.json_body_param,
                                      [t |-> "JSON", v |-> request.body.v]))
        kw4 == DictUpdate(kw3, OneArg(self.path_param, deepcopy(ListOf(request))))
        kw5 == DictUpdate(kw4, OneArg(self.query_param, deepcopy(DictOf(request))))
    IN  IF CoercionFails(self, params) THEN MatchNone
        ELSE IF self.json_body_param # NoParam /\ ~JsonParamLookupOk(self)
          THEN MatchRaise("KeyError")
        ELSE IF self.json_body_param # NoParam /\ DocValue(request.body).t = "None"
          THEN MatchNone
        ELSE MatchArgs(kw5)

\* match with the check of the aborted flag left out
match_ignoring_abort(self, request) == MatchActive(self, request)

match(self, request) ==
  IF request.aborted THEN MatchNone ELSE MatchActive(self, request)

\* ------------------------------------------------------------------------
\* Texts used by the declarations and the requests
\* ------------------------------------------------------------------------

s_self == <<"s", "e", "l", "f">>
s_hello == <<"h", "e", "l", "l", "o">>
s_request == <<"r", "e", "q", "u", "e", "s", "t">>
s_zeta == <<"z", "e", "t", "a">>
s_stop == <<"s", "t", "o", "p">>
s_alpha == <<"a", "l", "p", "h", "a">>
s_upload == <<"u", "p", "l", "o", "a", "d">>
s_write == <<"w", "r", "i", "t", "e">>
s_item == <<"i", "t", "e", "m">>
s_named == <<"n", "a", "m", "e", "d">>
s_keys == <<"k", "e", "y", "s">>
s_name == <<"n", "a", "m", "e">>
s_helper == <<"h", "e", "l", "p", "e", "r">>
s_doc == <<"d", "o", "c">>
s_body == <<"b", "o", "d", "y">>
s_id == <<"i", "d">>
s_export_csv == <<"e", "x", "p", "o", "r", "t", "_", "c", "s", "v">>
s_channels == <<"c", "h", "a", "n", "n", "e", "l", "s">>
s_opts == <<"o", "p", "t", "s">>
s_timezone == <<"t", "i", "m", "e", "z", "o", "n", "e">>
s_resample == <<"r", "e", "s", "a", "m", "p", "l", "e">>
s_local == <<"l", "o", "c", "a", "l">>
s_files == <<"f", "i", "l", "e", "s">>
s_path == <<"p", "a", "t", "h">>
s_pair == <<"p", "a", "i", "r">>
s_a == <<"a">>
s_b == <<"b">>
s_mid == <<"m", "i", "d">>
s_x == <<"x">>
s_braces == <<"b", "r", "a", "c", "e", "s">>
s_abc == <<"a", "b", "c">>
s_items == <<"i", "t", "e", "m", "s">>
s_dflt == <<"d", "f", "l", "t">>
s_9 == <<"9">>
s_emptybraces == <<"{", "}">>

r_hello == <<"/", "h", "e", "l", "l", "o">>
r_items == <<"/", "i", "t", "e", "m", "s", "/", "{", "i", "d", "}">>
r_named == <<"/", "i", "t", "e", "m", "s", "/", "{", "n", "a", "m", "e", "}">>
r_keys == <<"/", "i", "t", "e", "m", "s", "/", "{", "*", "}">>
r_export == <<"/", "e", "x", "p", "o", "r", "t", "/", "c", "s", "v", "/", "{", "c", "h", "a", "n", "n", "e", "l", "s", "}">>
r_files == <<"/", "f", "i", "l", "e", "s", "/", "{", "*", "}">>
r_pair == <<"/", "u", "/", "{", "a", "}", "/", "{", "b", "}">>
r_mid == <<"/", "m", "/", "{", "a", "}", "/", "l", "i", "t">>
r_x == <<"{", "x", "}">>
r_braces == <<"/", "a", "/", "{", "}", "/">>

\* ------------------------------------------------------------------------
\* Declarations: the handler functions and the App subclasses
\* ------------------------------------------------------------------------

Param(name, annotation, default) == [name |-> name, annotation |-> annotation, default |-> default]

SelfParam == Param(s_self, "_empty", Empty)

\* one application of @get / @post / @delete
Decorator(kind, path_rule, status_code) ==
  [kind |-> kind, path_rule |-> path_rule, status_code |-> status_code]

\* a function of a class body: its name, the decorators in the order they are
\* applied (innermost first), its signature, and what its body does when it
\* is invoked: the content it returns ("" when it returns None) and whether
\* it calls request.abort()
Func(name, decorators, signature, returns, aborts) ==
  [name |-> name, decorators |-> decorators, signature |-> signature,
   returns |-> returns, aborts |-> aborts]

\* MyApp, Peach, Orange and AbortHello are the classes of
\* test_slowapi_multiple.py, Export_CSV the plugin of export_CSV.py; Multi and
\* Files are further route sets given to the decorators, NoSuper and Composes
\* are subclasses whose __init__ does not call App.__init__
Funcs ==
  [ MyApp_hello |-> Func(s_hello, <<Decorator("get", r_hello, 200)>>, <<SelfParam>>,
                         "Hello.", FALSE),
    Peach_hello |-> Func(s_hello, <<Decorator("get", r_hello, 200)>>, <<SelfParam>>,
                         "I am a peach", FALSE),
    Orange_hello |-> Func(s_hello, <<Decorator("get", r_hello, 200)>>, <<SelfParam>>,
                         "I am an orange", FALSE),
    AbortHello_hello |-> Func(s_hello, <<Decorator("get", r_hello, 200)>>,
                         <<SelfParam, Param(s_request, "Request", Empty)>>, "", TRUE),
    Multi_zeta |-> Func(s_zeta, <<Decorator("get", r_hello, 200)>>, <<SelfParam>>,
                         "zeta", FALSE),
    Multi_stop |-> Func(s_stop, <<Decorator("get", r_hello, 200)>>,
                         <<SelfParam, Param(s_request, "Request", Empty)>>, "stop", TRUE),
    Multi_alpha |-> Func(s_alpha, <<Decorator("get", r_hello, 200)>>, <<SelfParam>>,
                         "alpha", FALSE),
    Multi_write |-> Func(s_write, <<Decorator("post", r_hello, 201)>>,
                         <<SelfParam, Param(s_body, "bytes", Empty)>>, "write", FALSE),
    Multi_upload |-> Func(s_upload, <<Decorator("post", r_hello, 201)>>,
                         <<SelfParam, Param(s_doc, "JSON", Empty)>>, "upload", FALSE),
    Multi_item |-> Func(s_item, <<Decorator("get", r_items, 200)>>,
                         <<SelfParam, Param(s_id, "int", Empty)>>, "item", FALSE),
    Multi_keys |-> Func(s_keys, <<Decorator("get", r_keys, 200)>>,
                         <<SelfParam, Param(s_path, "list", Empty),
                           Param(s_opts, "dict", Empty)>>, "keys", FALSE),
    Multi_named |-> Func(s_named, <<Decorator("get", r_named, 200)>>,
                         <<SelfParam, Param(s_name, "_empty", Empty)>>, "named", FALSE),
    Multi_helper |-> Func(s_helper, <<>>, <<SelfParam>>, "", FALSE),
    NoSuper_hello |-> Func(s_hello, <<Decorator("get", r_hello, 200)>>, <<SelfParam>>,
                         "no super", FALSE),
    Export_CSV_export_csv |-> Func(s_export_csv, <<Decorator("get", r_export, 200)>>,
                         <<SelfParam, Param(s_channels, "str", Empty),
                           Param(s_opts, "dict", Empty),
                           Param(s_timezone, "str", StrV(s_local)),
                           Param(s_resample, "float", IntV(0))>>, "csv", FALSE),
    Files_files |-> Func(s_files, <<Decorator("get", r_files, 200)>>,
                         <<SelfParam, Param(s_path, "list", Empty)>>, "files", FALSE),
    Files_pair |-> Func(s_pair, <<Decorator("get", r_pair, 200)>>,
                         <<SelfParam, Param(s_a, "_empty", Empty),
                           Param(s_b, "_empty", StrV(s_dflt))>>, "pair", FALSE),
    Files_mid |-> Func(s_mid, <<Decorator("delete", r_mid, 200)>>,
                         <<SelfParam, Param(s_a, "_empty", Empty)>>, "mid", FALSE),
    Files_x |-> Func(s_x, <<Decorator("get", r_x, 200)>>,
                         <<SelfParam, Param(s_x, "int", Empty)>>, "x", FALSE),
    Files_braces |-> Func(s_braces, <<Decorator("get", r_braces, 200)>>,
                         <<SelfParam>>, "braces", FALSE) ]

FuncIds == DOMAIN Funcs

\* the functions whose body empties the list and the dict it is given
\* (path.clear(), opts.clear())
ClearsArguments == {"Multi_keys"}

\* the functions of each class body, in declaration order
ClassMembers ==
  [ MyApp |-> <<"MyApp_hello">>,
    Peach |-> <<"Peach_hello">>,
    Orange |-> <<"Orange_hello">>,
    AbortHello |-> <<"AbortHello_hello">>,
    Multi |-> <<"Multi_zeta", "Multi_stop", "Multi_alpha", "Multi_write",
                "Multi_upload", "Multi_item", "Multi_keys", "Multi_named",
                "Multi_helper">>,
    Export_CSV |-> <<"Export_CSV_export_csv">>,
    NoSuper |-> <<"NoSuper_hello">>,
    Composes |-> <<>>,
    Files |-> <<"Files_files", "Files_pair", "Files_mid", "Files_x", "Files_braces">> ]

\* the App objects of the model and their types
AppClass ==
  [ myapp |-> "MyApp", peach |-> "Peach", orange |-> "Orange",
    aborter |-> "AbortHello", multi |-> "Multi",
    unset |-> "Peach", nosuper |-> "NoSuper", composes |-> "Composes" ]

Apps == DOMAIN AppClass

\* what type(self).__init__ does when it is called without arguments:
\*   "App": it is App.__init__, or it calls super().__init__() first
\*   "no_super": it returns without calling App.__init__
\*   "composes": it calls self.slowapi_append(...) without calling App.__init__
ClassInit ==
  [ MyApp |-> "App", Peach |-> "App", Orange |-> "App", AbortHello |-> "App",
    Multi |-> "App", Export_CSV |-> "App", Files |-> "App",
    NoSuper |-> "no_super", Composes |-> "composes" ]

\* the objects on which App.__init__ has not run when the program starts to
\* use them: unset was created without its constructor, the constructors of
\* nosuper and composes are those of their classes
NeverSetUp == {"unset", "nosuper", "composes"}

\* the objects constructed through App.__init__
Constructed == Apps \ NeverSetUp

\* ------------------------------------------------------------------------
\* The decorators get / post / delete
\* ------------------------------------------------------------------------

NoRule == [rule_str |-> <<>>, method |-> "", status_code |-> 0, path |-> <<>>,
           path_params |-> <<>>, param_attributes |-> <<>>, take_extra_path |-> FALSE,
           request_param |-> NoParam, bytes_body_param |-> NoParam,
           json_body_param |-> NoParam, path_param |-> NoParam, query_param |-> NoParam]

\* func.__dict__ as far as the router uses it
NoAttrs == [has_rule |-> FALSE, slowapi_path_rule |-> NoRule]

DecoratorMethod(kind) ==
  CASE kind = "get" -> "GET"
    [] kind = "post" -> "POST"
    [] kind = "delete" -> "DELETE"

\* a wrapper that attaches a rule every time
wrapper_overwrites(attrs, decorator, signature) ==
  [has_rule |-> TRUE,
   slowapi_path_rule |-> PathRule(decorator.path_rule, DecoratorMethod(decorator.kind),
                                  signature, decorator.status_code)]

\* wrapper(func) of get / post / delete
wrapper(attrs, decorator, signature) ==
  IF ~attrs.has_rule
    THEN [has_rule |-> TRUE,
          slowapi_path_rule |-> PathRule(decorator.path_rule, DecoratorMethod(decorator.kind),
                                         signature, decorator.status_code)]
    ELSE attrs

RECURSIVE ApplyDecorators(_, _, _)
ApplyDecorators(attrs, decorators, signature) ==
  IF Len(decorators) = 0 THEN attrs
  ELSE ApplyDecorators(wrapper(attrs, Head(decorators), signature), Tail(decorators), signature)

\* the attributes of the function once its class body was executed
FuncAttrs(f) == ApplyDecorators(NoAttrs, Funcs[f].decorators, Funcs[f].signature)

\* the attributes every function carries from then on: the rule is built
\* once, when the decorator is applied, and read at every dispatch
func_attrs == [f \in FuncIds |-> FuncAttrs(f)]

hasattr_slowapi_path_rule(f) == func_attrs[f].has_rule

slowapi_path_rule(f) == func_attrs[f].slowapi_path_rule

\* ------------------------------------------------------------------------
\* App.__init__
\* ------------------------------------------------------------------------

CharOrder == <<"_", "a", "b", "c", "d", "e", "f", "g", "h", "i", "j", "k", "l", "m",
               "n", "o", "p", "q", "r", "s", "t", "u", "v", "w", "x", "y", "z">>

Ord(c) == CHOOSE i \in 1..Len(CharOrder) : CharOrder[i] = c

\* a < b for two str
RECURSIVE StrLess(_, _)
StrLess(a, b) ==
  IF Len(b) = 0 THEN FALSE
  ELSE IF Len(a) = 0 THEN TRUE
  ELSE IF a[1] # b[1] THEN Ord(a[1]) < Ord(b[1])
  ELSE StrLess(Tail(a), Tail(b))

MemberLess(f, g) == StrLess(Funcs[f].name, Funcs[g].name)

\* inspect.getmembers(cls, predicate=inspect.isfunction): sorted by name
getmembers(cls) == SortSeq(ClassMembers[cls], MemberLess)

\* self.slowapi_handlers as App.__init__ leaves it
InitHandlers(cls) == SelectSeq(getmembers(cls), hasattr_slowapi_path_rule)

\* ------------------------------------------------------------------------
\* Request and Response
\* ------------------------------------------------------------------------

NoBody == PyNone
Bytes(b) == [t |-> "bytes", v |-> b]

\* a URL: the text of its path and its decoded query
Url(path, query) == [path |-> path, query |-> query]

\* Request(url, method=..., body=...): the path is split on '/', empty
\* elements dropped; the request is not aborted
Request(url, method, body) ==
  [method |-> method, path |-> SelectSeq(split(url.path, "/"), NonEmptyElem),
   query |-> url.query, body |-> body, aborted |-> FALSE]

\* Request.abort()
abort(req) == [req EXCEPT !.aborted = TRUE]

NoRequest == [method |-> "", path |-> <<>>, query |-> EmptyDict, body |-> NoBody,
              aborted |-> FALSE]

DefaultStatus == 200

\* Response(status_code=...)
Response(status_code) == [status_code |-> status_code, content |-> <<>>]

\* Response.append(other Response): content accumulates, a status other
\* than the default overrides the running status
ResponseAppend(resp, other) ==
  [status_code |-> IF other.status_code # DefaultStatus THEN other.status_code
                   ELSE resp.status_code,
   content |-> resp.content \o other.content]

\* Response.append(value a handler returned): None adds nothing
ResponseAppendContent(resp, returns) ==
  IF returns = "" THEN resp ELSE [resp EXCEPT !.content = Append(@, returns)]

\* ------------------------------------------------------------------------
\* State
\* ------------------------------------------------------------------------

VARIABLES
  initialised,            \* the App objects that have the slowapi_handlers attribute
  slowapi_handlers,       \* per App: the handler functions, in evaluation order
  slowapi_prepended_apps, \* per App: the prepended sub-routers
  slowapi_appended_apps,  \* per App: the appended sub-routers
  calls,                  \* history, per App: the apps it was given by slowapi_prepend
                          \* and by slowapi_append, in call order
  request,                \* the Request shared by the traversal in progress
  stack,                  \* the activations of App.slowapi, outermost first
  trace,                  \* history: what the traversal did so far
  result,                 \* what the outermost App.slowapi returned or raised
  wsgi,                   \* the activation of App.__call__
  probe,                  \* one evaluation of PathRule.match
  attach                  \* one function under its decorators

appVars == <<initialised, slowapi_handlers, slowapi_prepended_apps, slowapi_appended_apps,
             calls>>
dispatchVars == <<request, stack, trace, result>>
vars == <<initialised, slowapi_handlers, slowapi_prepended_apps, slowapi_appended_apps,
          calls, request, stack, trace, result, wsgi, probe, attach>>

\* the router the requests are dispatched on
Root == "myapp"

\* the largest number of composition calls
MaxSubApps == 3

NoResult == [kind |-> "none", response |-> Response(DefaultStatus), exc |-> ""]
Returned(resp) == [kind |-> "response", response |-> resp, exc |-> ""]
Raised(exc) == [kind |-> "raise", response |-> Response(DefaultStatus), exc |-> exc]

NoWsgi == [pc |-> "idle", environ |-> <<>>, status |-> "", body |-> <<>>,
           read |-> -1, dispatched |-> 0, exc |-> ""]

NoProbe == [func |-> "", request |-> NoRequest, done |-> FALSE, result |-> MatchNone]

NoAttach == [signature |-> <<>>, decorators |-> <<>>, applied |-> 0, attrs |-> NoAttrs,
             collected |-> FALSE, handlers |-> <<>>]

NoCalls == [a \in Apps |-> [prepend |-> <<>>, append |-> <<>>]]

RECURSIVE SumOver(_, _)
SumOver(f, S) ==
  IF S = {} THEN 0
  ELSE LET a == CHOOSE x \in S : TRUE IN f[a] + SumOver(f, S \ {a})

\* the number of composition calls made so far
NumCalls ==
  SumOver([a \in Apps |-> Len(calls[a].prepend) + Len(calls[a].append)], Apps)

\* the handler lists of the objects App.__init__ has run on; an object it has
\* not run on has no lists
ConstructedHandlers ==
  [a \in Apps |-> IF a \in Constructed THEN InitHandlers(AppClass[a]) ELSE <<>>]

\* the objects that are composed were constructed through App.__init__
Init ==
  /\ initialised = Constructed
  /\ slowapi_handlers = ConstructedHandlers
  /\ slowapi_prepended_apps = [a \in Apps |-> <<>>]
  /\ slowapi_appended_apps = [a \in Apps |-> <<>>]
  /\ calls = NoCalls
  /\ request = NoRequest
  /\ stack = <<>>
  /\ trace = <<>>
  /\ result = NoResult
  /\ wsgi = NoWsgi
  /\ probe = NoProbe
  /\ attach = NoAttach

\* ------------------------------------------------------------------------
\* Composition: slowapi_prepend, slowapi_append
\* ------------------------------------------------------------------------

SubApps(a) == {slowapi_prepended_apps[a][i] : i \in 1..Len(slowapi_prepended_apps[a])}
              \cup {slowapi_appended_apps[a][i] : i \in 1..Len(slowapi_appended_apps[a])}

RECURSIVE ReachableIn(_, _)
ReachableIn(S, n) ==
  LET T == S \cup UNION {SubApps(a) : a \in S}
  IN  IF n = 0 \/ T = S THEN S ELSE ReachableIn(T, n - 1)

\* the routers of the tree below a, a included
Descendants(a) == ReachableIn({a}, Cardinality(Apps))

\* lines 192-194, 219-221, 226-228: self.__init__() is called when the
\* attribute is missing, and it is the __init__ of the object's class.
\* App.__init__ runs only if that one runs it
RunsAppInit(self) == self \notin initialised /\ ClassInit[AppClass[self]] = "App"

\* the exception the lazy initialisation and the statement after it end in,
\* "" when there is none: an __init__ that composes calls slowapi_append,
\* which calls __init__ again, without end; after an __init__ that leaves
\* the lists unset the next statement reads a missing attribute
LazyRaises(self) ==
  IF self \in initialised \/ ClassInit[AppClass[self]] = "App" THEN ""
  ELSE IF ClassInit[AppClass[self]] = "composes" THEN "RecursionError"
  ELSE "AttributeError"

LazyInitialised(self) == IF RunsAppInit(self) THEN initialised \cup {self} ELSE initialised
LazyHandlers(self) ==
  IF RunsAppInit(self)
    THEN [slowapi_handlers EXCEPT ![self] = InitHandlers(AppClass[self])]
    ELSE slowapi_handlers
\* the lists are set up again at every call
LazyPrepended_at_every_call(self) == [slowapi_prepended_apps EXCEPT ![self] = <<>>]

LazyPrepended(self) ==
  IF RunsAppInit(self) THEN [slowapi_prepended_apps EXCEPT ![self] = <<>>]
  ELSE slowapi_prepended_apps
LazyAppended(self) ==
  IF RunsAppInit(self) THEN [slowapi_appended_apps EXCEPT ![self] = <<>>]
  ELSE slowapi_appended_apps

\* insertion at the wrong end of the list
InsertFront_at_back(list, app) == Append(list, app)
InsertBack_at_front(list, app) == <<app>> \o list

\* list.insert(0, app)
InsertFront(list, app) == <<app>> \o list

\* list.append(app)
InsertBack(list, app) == Append(list, app)

\* the composition calls made on the constructed routers: between
\* traversals, on a router of the tree under Root, never closing a cycle
CanCompose(self, app) ==
  /\ stack = <<>>
  /\ app \in Constructed
  /\ self \in Constructed
  /\ NumCalls < MaxSubApps
  /\ self \in Descendants(Root)
  /\ self \notin Descendants(app)

\* a composition call is made between traversals; a call that raises leaves
\* the lists as they are
slowapi_prepend(self, app) ==
  /\ stack = <<>>
  /\ wsgi.pc # "dispatching"
  /\ initialised' = LazyInitialised(self)
  /\ slowapi_handlers' = LazyHandlers(self)
  /\ slowapi_appended_apps' = LazyAppended(self)
  /\ IF LazyRaises(self) = ""
       THEN /\ slowapi_prepended_apps' =
                 [LazyPrepended(self) EXCEPT ![self] = InsertFront(@, app)]
            /\ calls' = [calls EXCEPT ![self].prepend = Append(@, app)]
            /\ result' = NoResult
       ELSE /\ slowapi_prepended_apps' = LazyPrepended(self)
            /\ calls' = calls
            /\ result' = Raised(LazyRaises(self))
  /\ request' = NoRequest /\ trace' = <<>>
  /\ UNCHANGED <<stack, wsgi, probe, attach>>

slowapi_append(self, app) ==
  /\ stack = <<>>
  /\ wsgi.pc # "dispatching"
  /\ initialised' = LazyInitialised(self)
  /\ slowapi_handlers' = LazyHandlers(self)
  /\ slowapi_prepended_apps' = LazyPrepended(self)
  /\ IF LazyRaises(self) = ""
       THEN /\ slowapi_appended_apps' =
                 [LazyAppended(self) EXCEPT ![self] = InsertBack(@, app)]
            /\ calls' = [calls EXCEPT ![self].append = Append(@, app)]
            /\ result' = NoResult
       ELSE /\ slowapi_appended_apps' = LazyAppended(self)
            /\ calls' = calls
            /\ result' = Raised(LazyRaises(self))
  /\ request' = NoRequest /\ trace' = <<>>
  /\ UNCHANGED <<stack, wsgi, probe, attach>>

\* ------------------------------------------------------------------------
\* Dispatch: App.slowapi
\* ------------------------------------------------------------------------

\* the argument of App.slowapi: a URL text or a Request object
StrArg(url) == [t |-> "str", v |-> Request(url, "", NoBody), url |-> url]
RequestArg(req) == [t |-> "Request", v |-> req, url |-> Url(<<>>, EmptyDict)]

\* a Request is built anew from every argument
AsRequest_always_new(arg, body) ==
  IF arg.t = "str"
    THEN IF body.t = "None" THEN Request(arg.url, "GET", NoBody)
         ELSE Request(arg.url, "POST", body)
    ELSE [arg.v EXCEPT !.aborted = FALSE]

\* lines 195-199: a str argument becomes a Request, a Request is used as it is
AsRequest(arg, body) ==
  IF arg.t = "str"
    THEN IF body.t = "None" THEN Request(arg.url, "GET", NoBody)
         ELSE Request(arg.url, "POST", body)
    ELSE arg.v

\* the activation starts at the handler loop
Frame_from_handlers(app) == [app |-> app, phase |-> "handlers", i |-> 1,
                             response |-> Response(DefaultStatus)]

\* line 201 and the loop positions of a fresh activation
Frame(app) == [app |-> app, phase |-> "prepended", i |-> 1,
               response |-> Response(DefaultStatus)]

Top == stack[Len(stack)]

SetTop(frame) == [stack EXCEPT ![Len(stack)] = frame]

Event(app, func, event, aborted) ==
  [app |-> app, func |-> func, event |-> event, aborted |-> aborted]

\* the list the loop of the current phase runs over (lines 202, 205, 212)
PhaseList(frame) ==
  CASE frame.phase = "prepended" -> slowapi_prepended_apps[frame.app]
    [] frame.phase = "handlers" -> slowapi_handlers[frame.app]
    [] frame.phase = "appended" -> slowapi_appended_apps[frame.app]

\* a loop that is exhausted is left for the next one: the frame stands at
\* the next sub-router to call, the next handler to evaluate, or the return
Settle(frame) ==
  LET f1 == IF frame.phase = "prepended" /\ frame.i > Len(PhaseList(frame))
              THEN [frame EXCEPT !.phase = "handlers", !.i = 1] ELSE frame
  IN  IF f1.phase = "handlers" /\ f1.i > Len(PhaseList(f1))
        THEN [f1 EXCEPT !.phase = "appended", !.i = 1] ELSE f1

\* the frame of a router that is entered, settled on the lists it has once
\* lines 192-194 have run
Enter(app) ==
  LET prepended == LazyPrepended(app)[app]
      handlers == LazyHandlers(app)[app]
  IN  IF Len(prepended) > 0 THEN Frame(app)
      ELSE IF Len(handlers) > 0 THEN [Frame(app) EXCEPT !.phase = "handlers"]
      ELSE [Frame(app) EXCEPT !.phase = "appended"]

\* the handler loop is left after the first match
AfterHandler_first_match_wins(i, matched) == IF matched THEN i + 1000 ELSE i + 1

\* the position of the handler loop after a handler was evaluated (line 205)
AfterHandler(i, matched) == i + 1

\* the outermost call: app.slowapi(request, body)
slowapi(self, arg, body) ==
  /\ stack = <<>>
  /\ wsgi.pc # "dispatching"
  /\ initialised' = LazyInitialised(self)
  /\ slowapi_handlers' = LazyHandlers(self)
  /\ slowapi_prepended_apps' = LazyPrepended(self)
  /\ slowapi_appended_apps' = LazyAppended(self)
  /\ request' = AsRequest(arg, body)
  /\ IF LazyRaises(self) = ""
       THEN /\ stack' = <<Enter(self)>>
            /\ trace' = <<Event(self, "", "enter", FALSE)>>
            /\ result' = NoResult
       ELSE /\ stack' = <<>>
            /\ trace' = <<Event(self, "", "raise", FALSE)>>
            /\ result' = Raised(LazyRaises(self))
  /\ UNCHANGED <<calls, wsgi, probe, attach>>

\* the depth of nested calls of App.slowapi at which the interpreter raises
\* RecursionError instead of making the next call
RecursionLimit == 8

\* what ends the call of a sub-router before its loops are reached, "" when
\* nothing does
CallRaises(app) ==
  IF Len(stack) >= RecursionLimit THEN "RecursionError" ELSE LazyRaises(app)

\* lines 203, 213: app.slowapi(request) on the next sub-router
CallSubApp ==
  /\ stack # <<>>
  /\ Top.phase \in {"prepended", "appended"}
  /\ Top.i <= Len(PhaseList(Top))
  /\ LET app == PhaseList(Top)[Top.i]
         entered == Len(stack) < RecursionLimit
     IN  /\ initialised' = IF entered THEN LazyInitialised(app) ELSE initialised
         /\ slowapi_handlers' = IF entered THEN LazyHandlers(app) ELSE slowapi_handlers
         /\ slowapi_prepended_apps' =
              IF entered THEN LazyPrepended(app) ELSE slowapi_prepended_apps
         /\ slowapi_appended_apps' =
              IF entered THEN LazyAppended(app) ELSE slowapi_appended_apps
         /\ request' = AsRequest(RequestArg(request), NoBody)
         /\ IF CallRaises(app) = ""
              THEN /\ stack' = Append(stack, Enter(app))
                   /\ trace' = Append(trace, Event(app, "", "enter", request.aborted))
                   /\ result' = result
              ELSE /\ stack' = <<>>
                   /\ trace' = Append(trace, Event(app, "", "raise", request.aborted))
                   /\ result' = Raised(CallRaises(app))
  /\ UNCHANGED <<calls, wsgi, probe, attach>>

AtHandler ==
  /\ stack # <<>>
  /\ Top.phase = "handlers"
  /\ Top.i <= Len(PhaseList(Top))

CurrentHandler == PhaseList(Top)[Top.i]

CurrentMatch == match(slowapi_path_rule(CurrentHandler), request)

\* lines 206-207: match returns None
HandlerNoMatch ==
  /\ AtHandler
  /\ CurrentMatch.kind = "None"
  /\ stack' = SetTop(Settle([Top EXCEPT !.i = AfterHandler(Top.i, FALSE)]))
  /\ trace' = Append(trace, Event(Top.app, CurrentHandler, "nomatch", request.aborted))
  /\ UNCHANGED <<appVars, request, result, wsgi, probe, attach>>

\* the arguments of that type that are the request's own object
SharedArgs(kwargs, type) ==
  {k \in DOMAIN kwargs : kwargs[k].t = type /\ kwargs[k].shared}

\* what the body of the handler does to the request: it may call abort, and
\* what it does to an argument that is an object of the request it does to
\* the request
HandlerEffect(f, req, kwargs) ==
  LET r1 == IF Funcs[f].aborts THEN abort(req) ELSE req
      r2 == IF f \in ClearsArguments /\ SharedArgs(kwargs, "list") # {}
              THEN [r1 EXCEPT !.path = <<>>] ELSE r1
  IN  IF f \in ClearsArguments /\ SharedArgs(kwargs, "dict") # {}
        THEN [r2 EXCEPT !.query = EmptyDict] ELSE r2

\* lines 208-210: the handler is invoked and its response merged
HandlerInvoke ==
  /\ AtHandler
  /\ CurrentMatch.kind = "kwargs"
  /\ LET f == CurrentHandler
         this_response == ResponseAppendContent(
                            Response(slowapi_path_rule(f).status_code), Funcs[f].returns)
     IN  /\ request' = HandlerEffect(f, request, CurrentMatch.kwargs)
         /\ stack' = SetTop(Settle([Top EXCEPT !.i = AfterHandler(Top.i, TRUE),
                                               !.response = ResponseAppend(@, this_response)]))
         /\ trace' = Append(trace, Event(Top.app, f, "invoke", request'.aborted))
  /\ UNCHANGED <<appVars, result, wsgi, probe, attach>>

\* line 206: match raises; nothing catches it, every activation is left
HandlerMatchRaises ==
  /\ AtHandler
  /\ CurrentMatch.kind = "raise"
  /\ stack' = <<>>
  /\ result' = Raised(CurrentMatch.exc)
  /\ trace' = Append(trace, Event(Top.app, CurrentHandler, "raise", request.aborted))
  /\ UNCHANGED <<appVars, request, wsgi, probe, attach>>

\* line 215: return response; the caller merges it (lines 203, 213)
Return ==
  /\ stack # <<>>
  /\ Top.phase = "appended"
  /\ Top.i > Len(PhaseList(Top))
  /\ IF Len(stack) = 1
       THEN /\ stack' = <<>>
            /\ result' = Returned(Top.response)
       ELSE LET caller == stack[Len(stack) - 1]
            IN  /\ stack' = Append(SubSeq(stack, 1, Len(stack) - 2),
                               Settle([caller EXCEPT !.i = @ + 1,
                                         !.response = ResponseAppend(@, Top.response)]))
                /\ result' = result
  /\ UNCHANGED <<appVars, request, trace, wsgi, probe, attach>>

\* the requests dispatched on the root
req_post_hello == Request(Url(r_hello, EmptyDict), "POST", Bytes(s_emptybraces))
req_get_items_abc == Request(Url(<<"/">> \o s_items \o <<"/">> \o s_abc, EmptyDict), "GET", NoBody)

DispatchCalls ==
  { [arg |-> StrArg(Url(r_hello, EmptyDict)), body |-> NoBody],
    [arg |-> RequestArg(req_post_hello), body |-> NoBody],
    [arg |-> RequestArg(req_get_items_abc), body |-> NoBody] }

Dispatch == \E c \in DispatchCalls : slowapi(Root, c.arg, c.body)

Prepend == \E self \in Apps, app \in Apps : CanCompose(self, app) /\ slowapi_prepend(self, app)

AppendApp == \E self \in Apps, app \in Apps : CanCompose(self, app) /\ slowapi_append(self, app)

Next ==
  \/ Prepend
  \/ AppendApp
  \/ Dispatch
  \/ CallSubApp
  \/ HandlerNoMatch
  \/ HandlerInvoke
  \/ HandlerMatchRaises
  \/ Return

Spec == Init /\ [][Next]_vars

\* ------------------------------------------------------------------------
\* The WSGI adapter: App.__call__
\* ------------------------------------------------------------------------

Present(v) == [present |-> TRUE, v |-> v]
Absent == [present |-> FALSE, v |-> <<>>]
AbsentMethod == [present |-> FALSE, v |-> ""]

\* environ.get(key, default)
EnvironGet(entry, default) == IF entry.present THEN entry.v ELSE default

\* int(text): ok = FALSE when it raises ValueError
int(text) ==
  IF IsIntLiteral(text) THEN [ok |-> TRUE, value |-> IntLiteralValue(text)]
  ELSE [ok |-> FALSE, value |-> 0]

\* line 254
MaxContentLength == 1024 * 1024 * 1024

\* the ceiling itself is refused
TooLarge_inclusive(content_length) == content_length >= MaxContentLength

TooLarge(content_length) == content_length > MaxContentLength

\* line 258
HasBody(content_length) == content_length > 0

\* line 251: the local content_length is bound only if line 249 assigned it
ContentLengthBound(parsed) == parsed.ok

\* environ['wsgi.input'].read(n)
read(input, n) == SubSeq(input, 1, IF n < Len(input) THEN n ELSE Len(input))

\* lines 243-260: what __call__ does before it calls self.slowapi
\*   kind "respond": start_response(status) and return [b'']
\*   kind "raise": an exception leaves __call__
\*   kind "dispatch": self.slowapi(Request(url, method, body))
Prologue(environ) ==
  LET method == EnvironGet(environ.REQUEST_METHOD, "GET")
      parsed == int(EnvironGet(environ.CONTENT_LENGTH, <<>>))
      content_length == parsed.value
      out(kind, status, exc, nread, body) ==
        [kind |-> kind, method |-> method, status |-> status, exc |-> exc,
         read |-> nread, body |-> body]
  IN  IF method # "POST" THEN out("dispatch", 0, "", -1, NoBody)
      ELSE IF ~parsed.ok
        THEN IF ContentLengthBound(parsed) THEN out("respond", 400, "", -1, NoBody)
             ELSE out("raise", 0, "UnboundLocalError", -1, NoBody)
      ELSE IF TooLarge(content_length) THEN out("respond", 507, "", -1, NoBody)
      ELSE IF HasBody(content_length)
        THEN out("dispatch", 0, "", content_length,
                 Bytes(read(environ.input, content_length)))
      ELSE out("dispatch", 0, "", -1, NoBody)

\* App.__call__ up to and including the call of self.slowapi (lines 243-261)
WsgiCall(self, environ) ==
  /\ stack = <<>>
  /\ wsgi.pc # "dispatching"
  /\ LET p == Prologue(environ)
     IN  /\ wsgi' = [pc |-> IF p.kind = "dispatch" THEN "dispatching" ELSE "done",
                     environ |-> environ, status |-> p.status, body |-> <<>>,
                     read |-> p.read, dispatched |-> IF p.kind = "dispatch" THEN 1 ELSE 0,
                     exc |-> p.exc]
         /\ IF p.kind = "dispatch"
              THEN /\ initialised' = LazyInitialised(self)
                   /\ slowapi_handlers' = LazyHandlers(self)
                   /\ slowapi_prepended_apps' = LazyPrepended(self)
                   /\ slowapi_appended_apps' = LazyAppended(self)
                   /\ request' = AsRequest(
                                   RequestArg(Request(environ.url, p.method, p.body)), NoBody)
                   /\ stack' = IF LazyRaises(self) = "" THEN <<Enter(self)>> ELSE <<>>
                   /\ trace' = <<Event(self, "", IF LazyRaises(self) = "" THEN "enter" ELSE "raise",
                                        FALSE)>>
              ELSE /\ request' = NoRequest
                   /\ stack' = <<>>
                   /\ trace' = <<>>
                   /\ UNCHANGED <<initialised, slowapi_handlers, slowapi_prepended_apps,
                                  slowapi_appended_apps>>
  /\ result' = IF Prologue(environ).kind = "dispatch" /\ LazyRaises(self) # ""
                 THEN Raised(LazyRaises(self)) ELSE NoResult
  /\ UNCHANGED <<calls, probe, attach>>

\* lines 263-264: start_response(response.get_status(), ...) and the body
WsgiRespond ==
  /\ wsgi.pc = "dispatching"
  /\ stack = <<>>
  /\ result.kind = "response"
  /\ wsgi' = [wsgi EXCEPT !.pc = "done", !.status = result.response.status_code,
                          !.body = result.response.content]
  /\ UNCHANGED <<appVars, dispatchVars, probe, attach>>

\* line 261: self.slowapi raised; __call__ has no handler for it
WsgiRaise ==
  /\ wsgi.pc = "dispatching"
  /\ stack = <<>>
  /\ result.kind = "raise"
  /\ wsgi' = [wsgi EXCEPT !.pc = "done", !.exc = result.exc]
  /\ UNCHANGED <<appVars, dispatchVars, probe, attach>>

cl_empty == <<>>
cl_abc == <<"a", "b", "c">>
cl_neg == <<"-", "5">>
cl_0 == <<"0">>
cl_2 == <<"2">>
cl_max == <<"1", "0", "7", "3", "7", "4", "1", "8", "2", "4">>
cl_over == <<"1", "0", "7", "3", "7", "4", "1", "8", "2", "5">>

p_empty == <<>>
p_hello == <<"/", "h", "e", "l", "l", "o">>
p_files == <<"/", "f", "i", "l", "e", "s">>
p_files_abc == <<"/", "f", "i", "l", "e", "s", "/", "a", "/", "b", "/", "c">>
p_other_abc == <<"/", "o", "t", "h", "e", "r", "/", "a", "/", "b", "/", "c">>
p_items_42 == <<"/", "i", "t", "e", "m", "s", "/", "4", "2">>
p_items_abc == <<"/", "i", "t", "e", "m", "s", "/", "a", "b", "c">>
p_items == <<"/", "i", "t", "e", "m", "s">>
p_5 == <<"/", "5">>
p_a_braces == <<"/", "a", "/", "{", "}">>
p_u == <<"/", "u">>
p_u_a == <<"/", "u", "/", "a">>
p_u_a_b == <<"/", "u", "/", "a", "/", "b">>
p_m_a == <<"/", "m", "/", "a">>
p_m_a_lit == <<"/", "m", "/", "a", "/", "l", "i", "t">>
p_export == <<"/", "e", "x", "p", "o", "r", "t", "/", "c", "s", "v", "/", "a", "b", "c">>

Environs ==
  { [REQUEST_METHOD |-> m, CONTENT_LENGTH |-> cl, url |-> Url(path, EmptyDict),
     input |-> s_emptybraces] :
      m \in {AbsentMethod, Present("GET"), Present("POST"), Present("DELETE")},
      cl \in {Absent, Present(cl_empty), Present(cl_abc), Present(cl_neg), Present(cl_0),
              Present(cl_2), Present(cl_max), Present(cl_over)},
      path \in {p_hello, p_items_42} }

Call == \E environ \in Environs : WsgiCall(Root, environ)

\* the tree of the served application: Peach and Multi appended to MyApp
InitCall ==
  /\ initialised = Constructed
  /\ slowapi_handlers = ConstructedHandlers
  /\ slowapi_prepended_apps = [a \in Apps |-> <<>>]
  /\ slowapi_appended_apps = [a \in Apps |-> IF a = Root THEN <<"peach", "multi">> ELSE <<>>]
  /\ calls = [NoCalls EXCEPT ![Root].append = <<"peach", "multi">>]
  /\ request = NoRequest
  /\ stack = <<>>
  /\ trace = <<>>
  /\ result = NoResult
  /\ wsgi = NoWsgi
  /\ probe = NoProbe
  /\ attach = NoAttach

NextCall ==
  \/ Call
  \/ WsgiRespond
  \/ WsgiRaise
  \/ CallSubApp
  \/ HandlerNoMatch
  \/ HandlerInvoke
  \/ HandlerMatchRaises
  \/ Return

SpecCall == InitCall /\ [][NextCall]_vars

\* ------------------------------------------------------------------------
\* PathRule.match on its own
\* ------------------------------------------------------------------------

Handlers == {f \in FuncIds : hasattr_slowapi_path_rule(f)}

ProbeQueries ==
  { EmptyDict, [k \in {s_x} |-> StrV(s_9)], [k \in {s_id} |-> StrV(s_abc)],
    [k \in {s_a} |-> StrV(s_9)] }

ProbePaths ==
  { p_empty, p_hello, p_files, p_files_abc, p_other_abc, p_items_42, p_items_abc, p_items,
    p_5, p_a_braces, p_u, p_u_a, p_u_a_b, p_m_a, p_m_a_lit, p_export }

ProbeRequests ==
  { [Request(Url(path, query), m, body) EXCEPT !.aborted = ab] :
      path \in ProbePaths, query \in ProbeQueries, m \in {"GET", "POST", "DELETE"},
      body \in {NoBody, Bytes(s_emptybraces)}, ab \in BOOLEAN }

\* a rule and a request are given
InitMatch ==
  /\ initialised = Constructed
  /\ slowapi_handlers = ConstructedHandlers
  /\ slowapi_prepended_apps = [a \in Apps |-> <<>>]
  /\ slowapi_appended_apps = [a \in Apps |-> <<>>]
  /\ calls = NoCalls
  /\ request = NoRequest
  /\ stack = <<>>
  /\ trace = <<>>
  /\ result = NoResult
  /\ wsgi = NoWsgi
  /\ \E f \in Handlers, req \in ProbeRequests :
        probe = [func |-> f, request |-> req, done |-> FALSE, result |-> MatchNone]
  /\ attach = NoAttach

\* handler.slowapi_path_rule.match(request)
MatchCall ==
  /\ probe.func # ""
  /\ ~probe.done
  /\ probe' = [probe EXCEPT !.done = TRUE,
                            !.result = match(slowapi_path_rule(probe.func), probe.request)]
  /\ UNCHANGED <<appVars, dispatchVars, wsgi, attach>>

NextMatch == MatchCall

SpecMatch == InitMatch /\ [][NextMatch]_vars

\* ------------------------------------------------------------------------
\* The decorators applied to one function, and its collection
\* ------------------------------------------------------------------------

\* the largest number of decorators stacked on one function
MaxDecorators == 3

\* the decorators that can be written above the function
DecoratorChoices ==
  { Decorator(kind, rule, IF kind = "post" THEN 201 ELSE code) :
      kind \in {"get", "post", "delete"}, rule \in {r_hello, r_items},
      code \in {200, 203} }

RECURSIVE SeqsUpTo(_, _)
SeqsUpTo(S, n) ==
  IF n = 0 THEN {<<>>}
  ELSE LET shorter == SeqsUpTo(S, n - 1)
       IN  shorter \cup {Append(q, x) : q \in {r \in shorter : Len(r) = n - 1}, x \in S}

SignatureChoices ==
  { <<SelfParam>>, <<SelfParam, Param(s_id, "int", Empty)>> }

\* a function is defined; the decorators above it are still to be applied,
\* innermost first
InitAttach ==
  /\ initialised = Constructed
  /\ slowapi_handlers = ConstructedHandlers
  /\ slowapi_prepended_apps = [a \in Apps |-> <<>>]
  /\ slowapi_appended_apps = [a \in Apps |-> <<>>]
  /\ calls = NoCalls
  /\ request = NoRequest
  /\ stack = <<>>
  /\ trace = <<>>
  /\ result = NoResult
  /\ wsgi = NoWsgi
  /\ probe = NoProbe
  /\ \E sig \in SignatureChoices, ds \in SeqsUpTo(DecoratorChoices, MaxDecorators) :
        attach = [NoAttach EXCEPT !.signature = sig, !.decorators = ds]

\* get(...)(func) / post(...)(func) / delete(...)(func): the next decorator
Attach ==
  /\ ~attach.collected
  /\ attach.applied < Len(attach.decorators)
  /\ attach' = [attach EXCEPT
                  !.applied = @ + 1,
                  !.attrs = wrapper(@, attach.decorators[attach.applied + 1], attach.signature)]
  /\ UNCHANGED <<appVars, dispatchVars, wsgi, probe>>

\* lines 186-188 for a class whose body holds this one function
Collect ==
  /\ ~attach.collected
  /\ attach.applied = Len(attach.decorators)
  /\ attach' = [attach EXCEPT
                  !.collected = TRUE,
                  !.handlers = IF attach.attrs.has_rule THEN Append(@, "func") ELSE @]
  /\ UNCHANGED <<appVars, dispatchVars, wsgi, probe>>

NextAttach ==
  \/ Attach
  \/ Collect

SpecAttach == InitAttach /\ [][NextAttach]_vars

\* ------------------------------------------------------------------------
\* Routers that were never set up
\* ------------------------------------------------------------------------

\* the largest number of composition calls made on routers never set up
MaxLazyCalls == 2

\* the routers given to them as sub-routers
LazyChildren == {"peach", "multi", "nosuper"}

CanComposeLazy(self, app) ==
  /\ stack = <<>>
  /\ NumCalls < MaxLazyCalls
  /\ self \notin Descendants(app)

LazyPrepend ==
  \E self \in NeverSetUp, app \in LazyChildren :
    CanComposeLazy(self, app) /\ slowapi_prepend(self, app)

LazyAppend ==
  \E self \in NeverSetUp, app \in LazyChildren :
    CanComposeLazy(self, app) /\ slowapi_append(self, app)

LazyDispatch ==
  \E self \in NeverSetUp, c \in DispatchCalls : slowapi(self, c.arg, c.body)

\* the program holds the constructed routers and the three never set up
InitLazy ==
  /\ initialised = Constructed
  /\ slowapi_handlers = ConstructedHandlers
  /\ slowapi_prepended_apps = [a \in Apps |-> <<>>]
  /\ slowapi_appended_apps = [a \in Apps |-> <<>>]
  /\ calls = NoCalls
  /\ request = NoRequest
  /\ stack = <<>>
  /\ trace = <<>>
  /\ result = NoResult
  /\ wsgi = NoWsgi
  /\ probe = NoProbe
  /\ attach = NoAttach

NextLazy ==
  \/ LazyPrepend
  \/ LazyAppend
  \/ LazyDispatch
  \/ CallSubApp
  \/ HandlerNoMatch
  \/ HandlerInvoke
  \/ HandlerMatchRaises
  \/ Return

SpecLazy == InitLazy /\ [][NextLazy]_vars

\* ------------------------------------------------------------------------
\* Composition without restriction: nothing in slowapi_prepend or
\* slowapi_append looks at the sub-router, so a router can be given itself or
\* one of its ancestors
\* ------------------------------------------------------------------------

\* the largest number of composition calls
MaxCycleCalls == 2

\* the routers that are composed
CycleApps == {Root, "aborter", "multi"}

CanComposeCycle == stack = <<>> /\ NumCalls < MaxCycleCalls

CyclePrepend ==
  \E self \in CycleApps, app \in CycleApps : CanComposeCycle /\ slowapi_prepend(self, app)

CycleAppend ==
  \E self \in CycleApps, app \in CycleApps : CanComposeCycle /\ slowapi_append(self, app)

InitCycle ==
  /\ initialised = Constructed
  /\ slowapi_handlers = ConstructedHandlers
  /\ slowapi_prepended_apps = [a \in Apps |-> <<>>]
  /\ slowapi_appended_apps = [a \in Apps |-> <<>>]
  /\ calls = NoCalls
  /\ request = NoRequest
  /\ stack = <<>>
  /\ trace = <<>>
  /\ result = NoResult
  /\ wsgi = NoWsgi
  /\ probe = NoProbe
  /\ attach = NoAttach

\* the statements of a traversal that has begun
Traverse ==
  \/ CallSubApp
  \/ HandlerNoMatch
  \/ HandlerInvoke
  \/ HandlerMatchRaises
  \/ Return

NextCycle ==
  \/ CyclePrepend
  \/ CycleAppend
  \/ Dispatch
  \/ CallSubApp
  \/ HandlerNoMatch
  \/ HandlerInvoke
  \/ HandlerMatchRaises
  \/ Return

\* a traversal that has begun runs on: the statements of App.slowapi follow
\* one another in one thread, and the handlers return
SpecCycle == InitCycle /\ [][NextCycle]_vars /\ WF_vars(Traverse)

\* ------------------------------------------------------------------------
\* Properties of the dispatch traversal
\* ------------------------------------------------------------------------

IsInvoke(e) == e.event = "invoke"

ReturnsContent(e) == e.event = "invoke" /\ Funcs[e.func].returns # ""

\* the handler invocations of the traversal, in the order they were made
Invoked == SelectSeq(trace, IsInvoke)

\* the content the invoked handlers returned, in the order they were invoked
InvokedContent ==
  LET es == SelectSeq(trace, ReturnsContent)
  IN  [i \in 1..Len(es) |-> Funcs[es[i].func].returns]

\* the routers entered and the handlers evaluated, in the order of the traversal
TraceVisits == [i \in 1..Len(trace) |-> [app |-> trace[i].app, func |-> trace[i].func]]

IsPrefix(s, t) == Len(s) <= Len(t) /\ \A i \in 1..Len(s) : s[i] = t[i]

\* the handler would accept the request of the traversal if it were not aborted
WouldMatch(f) ==
  match(slowapi_path_rule(f), [request EXCEPT !.aborted = FALSE]).kind = "kwargs"

\* C1: once a handler has set the aborted flag, every later step of the same
\* traversal is the entry of a sub-router or a match that returns None, so no
\* handler is invoked after the abort, in whatever router of the tree; and the
\* response the root returns after an abort holds the content of every handler
\* invoked up to and including the aborting one, in invocation order.
AbortSuppression ==
  /\ \A i, j \in 1..Len(trace) :
       (i < j /\ trace[i].aborted) => trace[j].event \in {"enter", "nomatch"}
  /\ (result.kind = "response" /\ request.aborted) =>
       result.response.content = InvokedContent

\* an abort inside a prepended sub-router, after a handler that contributed,
\* has suppressed an own handler of the root, and the root has returned
AbortSuppressionWitness ==
  /\ result.kind = "response"
  /\ Len(result.response.content) > 0
  /\ \E i, j \in 1..Len(trace) :
       /\ i < j
       /\ trace[i].event = "invoke" /\ trace[i].aborted
       /\ \E k \in 1..Len(slowapi_prepended_apps[Root]) :
            slowapi_prepended_apps[Root][k] = trace[i].app
       /\ trace[j].app = Root /\ trace[j].event = "nomatch" /\ WouldMatch(trace[j].func)

\* C2: during a traversal the aborted flag never goes from true to false; a
\* traversal starts with the flag false; and the only step that sets it is
\* the invocation of a handler whose body calls abort.
AbortedMonotone ==
  [][ /\ (stack # <<>> /\ request.aborted) => request'.aborted
      /\ (stack = <<>> /\ stack' # <<>>) => ~request'.aborted
      /\ (stack # <<>> /\ ~request.aborted /\ request'.aborted) =>
           (AtHandler /\ CurrentMatch.kind = "kwargs" /\ Funcs[CurrentHandler].aborts)
    ]_vars

\* the traversal went on into a sub-router after the request was aborted
AbortedMonotoneWitness ==
  /\ Len(stack) >= 2
  /\ request.aborted
  /\ \E i, j \in 1..Len(trace) : i < j /\ trace[i].aborted /\ trace[j].event = "enter"

Reverse(s) == [i \in 1..Len(s) |-> s[Len(s) + 1 - i]]

OwnVisits(app) ==
  [i \in 1..Len(slowapi_handlers[app]) |-> [app |-> app, func |-> slowapi_handlers[app][i]]]

\* the order the composition contract prescribes: the prepended sub-routers,
\* most recently prepended first, the own handlers, the appended sub-routers
\* in call order; the same inside every sub-router
RECURSIVE ContractVisits(_), ContractVisitsAll(_)
ContractVisits(app) ==
  <<[app |-> app, func |-> ""]>>
    \o ContractVisitsAll(Reverse(calls[app].prepend))
    \o OwnVisits(app)
    \o ContractVisitsAll(calls[app].append)
ContractVisitsAll(list) ==
  IF Len(list) = 0 THEN <<>>
  ELSE ContractVisits(Head(list)) \o ContractVisitsAll(Tail(list))

\* C3: whatever slowapi_prepend and slowapi_append calls were made, a
\* traversal visits, at every level of the tree, the prepended sub-routers in
\* reverse call order, then the own handlers, then the appended sub-routers
\* in call order; a traversal that returns has made all of these visits, and
\* the merged content is in that order.
CompositionOrder ==
  /\ trace # <<>> => IsPrefix(TraceVisits, ContractVisits(trace[1].app))
  /\ result.kind = "response" =>
       /\ TraceVisits = ContractVisits(trace[1].app)
       /\ result.response.content = InvokedContent

\* a returned traversal of a tree in which a sub-router has itself two
\* prepended sub-routers
CompositionOrderWitness ==
  /\ result.kind = "response"
  /\ Len(result.response.content) >= 3
  /\ \E a \in Apps \ {Root} : Len(slowapi_prepended_apps[a]) >= 2

\* the apps whose handlers were invoked, in invocation order
InvokedApps == [i \in 1..Len(Invoked) |-> Invoked[i].app]

\* the router has one handler and it accepts the request
OneHandlerMatches(app) ==
  Len(slowapi_handlers[app]) = 1 /\ WouldMatch(slowapi_handlers[app][1])

NoHandlerAborts(app) ==
  \A i \in 1..Len(slowapi_handlers[app]) : ~Funcs[slowapi_handlers[app][i]].aborts

\* B was prepended to the root, later A was prepended to the root, C was
\* appended to the root, nothing else was composed; the request is accepted
\* by the one handler of each, and a traversal has returned
CompositionExample(B, A, C) ==
  /\ result.kind = "response"
  /\ calls[Root].prepend = <<B, A>>
  /\ calls[Root].append = <<C>>
  /\ NumCalls = 3
  /\ Cardinality({Root, A, B, C}) = 4
  /\ \A a \in {Root, A, B, C} : OneHandlerMatches(a)
  /\ \A a \in {Root, A, B} : NoHandlerAborts(a)

\* C4 as stated: in the composition example the handlers are invoked in the
\* order B (prepended earlier), A (prepended later), H (the root's own), C.
CompositionExampleEarlierFirst ==
  result.kind = "response" =>
    \A B \in Apps : \A A \in Apps : \A C \in Apps :
      CompositionExample(B, A, C) => InvokedApps = <<B, A, Root, C>>

\* C4 amended: in the composition example the handlers are invoked in the
\* order A (prepended later), B (prepended earlier), H (the root's own), C.
CompositionExampleLaterFirst ==
  result.kind = "response" =>
    \A B \in Apps : \A A \in Apps : \A C \in Apps :
      CompositionExample(B, A, C) => InvokedApps = <<A, B, Root, C>>

CompositionExampleWitness ==
  /\ CompositionExample("peach", "orange", "aborter")
  /\ result.response.content = <<"I am an orange", "I am a peach", "Hello.">>

\* the routers entered and the handlers evaluated by a full traversal of the
\* tree as it is: prepended list, handler list, appended list, front to back
RECURSIVE TreeVisits(_), TreeVisitsAll(_)
TreeVisits(app) ==
  <<[app |-> app, func |-> ""]>>
    \o TreeVisitsAll(slowapi_prepended_apps[app])
    \o OwnVisits(app)
    \o TreeVisitsAll(slowapi_appended_apps[app])
TreeVisitsAll(list) ==
  IF Len(list) = 0 THEN <<>>
  ELSE TreeVisits(Head(list)) \o TreeVisitsAll(Tail(list))

VisitMatches(v) == v.func # "" /\ WouldMatch(v.func)

InvokedVisits == [i \in 1..Len(Invoked) |-> [app |-> Invoked[i].app, func |-> Invoked[i].func]]

\* no router occurs twice under the root
IsTree ==
  LET vs == TreeVisits(Root)
  IN  \A i, j \in 1..Len(vs) : (vs[i].func = "" /\ vs[j] = vs[i]) => i = j

TimesInvoked(app, f) ==
  Cardinality({i \in 1..Len(trace) :
                 trace[i].event = "invoke" /\ trace[i].app = app /\ trace[i].func = f})

\* C5: when a traversal returns and the request was not aborted, the
\* handlers invoked are exactly the handlers of the tree whose rule accepts
\* the request, each once for each place its router has in the tree (once,
\* when the routers form a tree), in traversal order, and the returned
\* response holds the content of each of them in that order.
NotFirstMatchWins ==
  (result.kind = "response" /\ ~request.aborted) =>
    /\ InvokedVisits = SelectSeq(TreeVisits(trace[1].app), VisitMatches)
    /\ result.response.content = InvokedContent
    /\ IsTree => \A a \in Descendants(Root) :
                   \A i \in 1..Len(slowapi_handlers[a]) :
                     WouldMatch(slowapi_handlers[a][i]) =>
                       TimesInvoked(a, slowapi_handlers[a][i]) = 1

\* GET /hello on the root with Peach and Orange appended: all three fire
NotFirstMatchWinsWitness ==
  /\ slowapi_appended_apps[Root] = <<"peach", "orange">>
  /\ slowapi_prepended_apps[Root] = <<>>
  /\ result.kind = "response"
  /\ result.response.content = <<"Hello.", "I am a peach", "I am an orange">>

\* the handlers of a class in the order its body declares them
DeclaredHandlers(cls) == SelectSeq(ClassMembers[cls], hasattr_slowapi_path_rule)

DeclaredPos(app, f) ==
  LET d == DeclaredHandlers(AppClass[app])
  IN  CHOOSE i \in 1..Len(d) : d[i] = f

\* two steps of the trace belong to the same activation of the router
SameVisit(i, j) ==
  /\ trace[i].app = trace[j].app
  /\ \A k \in 1..Len(trace) :
       ((i < k /\ k < j) \/ (j < k /\ k < i)) =>
         ~(trace[k].event = "enter" /\ trace[k].app = trace[i].app)

\* C6: the own handlers of a router are evaluated in the order in which the
\* class declares them; a handler that aborts suppresses exactly the handlers
\* declared after it: every accepting handler declared before it was invoked
\* before it and no handler declared after it is invoked.
OwnHandlersInDeclarationOrder ==
  /\ \A i, j \in 1..Len(trace) :
       (i < j /\ trace[i].func # "" /\ trace[j].func # "" /\ SameVisit(i, j)) =>
         DeclaredPos(trace[i].app, trace[i].func) < DeclaredPos(trace[j].app, trace[j].func)
  /\ \A i \in 1..Len(trace) :
       (trace[i].event = "invoke" /\ trace[i].aborted
          /\ (i > 1 => ~trace[i - 1].aborted)) =>
         LET app == trace[i].app
             d == DeclaredHandlers(AppClass[app])
             pos == DeclaredPos(app, trace[i].func)
         IN  /\ \A q \in 1..(pos - 1) :
                  WouldMatch(d[q]) =>
                    \E j \in 1..(i - 1) :
                      SameVisit(j, i) /\ trace[j].event = "invoke" /\ trace[j].func = d[q]
             /\ \A j \in 1..Len(trace) :
                  (j # i /\ SameVisit(i, j) /\ trace[j].event = "invoke") =>
                    DeclaredPos(app, trace[j].func) < pos

\* ------------------------------------------------------------------------
\* Properties of the WSGI adapter
\* ------------------------------------------------------------------------

\* the adapter was called; its request carries a body
PostCalled ==
  /\ wsgi.pc # "idle"
  /\ EnvironGet(wsgi.environ.REQUEST_METHOD, "GET") = "POST"

DeclaredLengthText == EnvironGet(wsgi.environ.CONTENT_LENGTH, <<>>)

\* the declared length is a non-empty run of decimal digits
IsNonNegativeInteger(text) ==
  Len(text) > 0 /\ \A i \in 1..Len(text) : IsDigit(text[i])

\* self.slowapi was not called for the request
NotDispatched == wsgi.dispatched = 0 /\ trace = <<>> /\ stack = <<>>

\* C7: a POST whose CONTENT_LENGTH is not a valid non-negative integer
\* (missing, empty, not numeric, negative) is answered with status 400 and an
\* empty body, and dispatch is not invoked for it.
MalformedLengthRejected ==
  (PostCalled /\ ~IsNonNegativeInteger(DeclaredLengthText)) =>
    /\ wsgi.pc = "done"
    /\ wsgi.exc = ""
    /\ wsgi.status = 400
    /\ wsgi.body = <<>>
    /\ NotDispatched

RootEntries ==
  Cardinality({i \in 1..Len(trace) : trace[i].event = "enter" /\ trace[i].app = Root})

\* C8: a POST whose declared length exceeds 1 GiB is answered with status 507
\* and an empty body, nothing is read and dispatch is not invoked; for a
\* declared length L from 0 to 1 GiB exactly L bytes are asked of the input
\* (nothing is read and the request has no body when L = 0) and dispatch is
\* invoked exactly once.
OversizedBodyRejected ==
  (PostCalled /\ IsNonNegativeInteger(DeclaredLengthText)) =>
    LET L == DigitsValue(DeclaredLengthText)
    IN  IF L > 1073741824
          THEN /\ wsgi.pc = "done"
               /\ wsgi.exc = ""
               /\ wsgi.status = 507
               /\ wsgi.body = <<>>
               /\ wsgi.read = -1
               /\ NotDispatched
          ELSE /\ wsgi.dispatched = 1
               /\ RootEntries = 1
               /\ wsgi.read = (IF L = 0 THEN -1 ELSE L)
               /\ L = 0 => request.body = NoBody
               /\ L > 0 => request.body = Bytes(read(wsgi.environ.input, L))

\* a declared length of one byte more than 1 GiB was refused
OversizedBodyRejectedWitness ==
  /\ PostCalled
  /\ DeclaredLengthText = cl_over
  /\ wsgi.pc = "done"
  /\ wsgi.status = 507

\* C9: no exception leaves the framework code: PathRule.match returns a
\* binding or None, and App.__call__ ends by calling start_response and
\* returning a body.
NoUncaughtFault ==
  /\ result.kind # "raise"
  /\ wsgi.exc = ""
  /\ wsgi.pc = "done" => wsgi.status # 0

\* ------------------------------------------------------------------------
\* Properties of PathRule.match
\* ------------------------------------------------------------------------

ProbeRule == slowapi_path_rule(probe.func)

\* R, the number of path elements of the request
ProbeR == Len(probe.request.path)

\* P, the number of stored pattern elements
ProbeP == Len(ProbeRule.path)

Min(a, b) == IF a < b THEN a ELSE b

\* the length policy as the specification words it
LengthPolicy ==
  \/ ProbeR = ProbeP
  \/ ProbeR > ProbeP /\ ProbeRule.take_extra_path
  \/ ProbeR < ProbeP /\ \A k \in (ProbeR + 1)..ProbeP : ProbeRule.path[k].none

LiteralsAgree ==
  \A k \in 1..Min(ProbeR, ProbeP) :
    ~ProbeRule.path[k].none => ProbeRule.path[k].v = probe.request.path[k]

\* the signature has no parameter whose binding can reject the request
BindsAlways(f) ==
  \A i \in 2..Len(Funcs[f].signature) :
    Funcs[f].signature[i].annotation \in {"_empty", "Request", "bytes", "list", "dict"}

ProbeIs(f, method, path) ==
  /\ probe.func = f
  /\ probe.request.method = method
  /\ probe.request.path = SelectSeq(split(path, "/"), NonEmptyElem)
  /\ ~probe.request.aborted

\* C10: match returns a binding only if the length policy holds (R = P; or
\* R > P and the pattern has the wildcard tail; or R < P and every pattern
\* element from position R on is a placeholder) and every literal element
\* below min(R, P) equals the request's element; a rule that fails either is
\* rejected; and a rule of a handler whose parameters bind unconditionally
\* accepts every request of its method, not aborted, that passes both.
\* '/files/{*}' accepts GET /files/a/b/c and GET /files and rejects
\* GET /other/a/b/c and GET on the empty path.
LengthPolicyHolds ==
  probe.done =>
    /\ probe.result.kind = "kwargs" => (LengthPolicy /\ LiteralsAgree)
    /\ ~(LengthPolicy /\ LiteralsAgree) => probe.result.kind = "None"
    /\ ( /\ LengthPolicy /\ LiteralsAgree /\ BindsAlways(probe.func)
         /\ ~probe.request.aborted /\ probe.request.method = ProbeRule.method )
         => probe.result.kind = "kwargs"
    /\ ProbeIs("Files_files", "GET", p_files_abc) => probe.result.kind = "kwargs"
    /\ ProbeIs("Files_files", "GET", p_files) => probe.result.kind = "kwargs"
    /\ ProbeIs("Files_files", "GET", p_other_abc) => probe.result.kind = "None"
    /\ ProbeIs("Files_files", "GET", p_empty) => probe.result.kind = "None"

\* '/files/{*}' has accepted GET /files/a/b/c
LengthPolicyHoldsWitness ==
  /\ probe.done
  /\ ProbeIs("Files_files", "GET", p_files_abc)
  /\ ProbeRule.take_extra_path
  /\ ProbeR > ProbeP
  /\ probe.result.kind = "kwargs"

\* the working map of step 5: the path captures overlaid by the query
ProbeWorkingMap == DictUpdate(PathParams(ProbeRule, probe.request), probe.request.query)

ProbeSignature == Funcs[probe.func].signature

\* the value step 6 looks up for a parameter: from the working map, else the
\* declared default, else None
LookupIn(map, p) ==
  IF p.name \in DOMAIN map THEN map[p.name]
  ELSE IF p.default.t # "_empty" THEN p.default
  ELSE PyNone

ProbeLookup(p) == LookupIn(ProbeWorkingMap, p)

\* every value looked up for a typed plain parameter is accepted by the type
ProbeValuesAccepted ==
  \A i \in 2..Len(ProbeSignature) :
    LET p == ProbeSignature[i]
    IN  (IsPlainParam(p) /\ p.annotation # "_empty" /\ ProbeLookup(p).t # "None") =>
          Coerce(p.annotation, ProbeLookup(p)).ok

HasDocParam(f) ==
  \E i \in 2..Len(Funcs[f].signature) : Funcs[f].signature[i].annotation \in {"JSON", "DictJSON"}

\* method, segment count and literal segments agree
ProbeAgrees ==
  /\ probe.request.method = ProbeRule.method
  /\ ProbeR = ProbeP
  /\ LiteralsAgree

\* method, a literal segment or the length relationship disagrees
ProbeDisagrees ==
  \/ probe.request.method # ProbeRule.method
  \/ ~LiteralsAgree
  \/ ~LengthPolicy

\* C11 as stated: every request whose method, segment count and literal
\* segments agree with the rule gets a binding, and every request that differs
\* in method, in a literal segment or has an unsupported length gets None.
MatcherCompleteAndSound ==
  probe.done =>
    /\ ProbeAgrees => probe.result.kind = "kwargs"
    /\ ProbeDisagrees => probe.result.kind = "None"

\* C11 amended: a request whose method, segment count and literal segments
\* agree with the rule gets a binding provided it is not aborted, every value
\* looked up for a typed plain parameter is accepted by the declared type and
\* the handler declares no document parameter; every request that differs in
\* method, in a literal segment or has an unsupported length gets None.
MatcherCompleteWhenBindable ==
  probe.done =>
    /\ ( /\ ProbeAgrees /\ ~probe.request.aborted /\ ProbeValuesAccepted
         /\ ~HasDocParam(probe.func) ) => probe.result.kind = "kwargs"
    /\ ProbeDisagrees => probe.result.kind = "None"

\* '/items/{id}' with id: int has bound GET /items/42, and the request of the
\* probe agrees with the rule in method, count and literals
MatcherCompleteWitness ==
  /\ probe.done
  /\ ProbeIs("Multi_item", "GET", p_items_42)
  /\ ProbeAgrees
  /\ probe.request.query = EmptyDict
  /\ probe.result.kind = "kwargs"
  /\ probe.result.kwargs[s_id] = IntV(42)

\* the positions of the placeholders that captured a segment of the request
ProbeCaptured == {pos \in DOMAIN ProbeRule.path_params : pos <= ProbeR}

\* the plain parameter of the handler with that name, if it has one
ProbePlainNamed(name) ==
  {i \in 2..Len(ProbeSignature) :
     IsPlainParam(ProbeSignature[i]) /\ ProbeSignature[i].name = name}

\* the value a plain parameter is bound to when raw was found for it
Bound(p, raw) == IF p.annotation = "_empty" THEN raw ELSE Coerce(p.annotation, raw).value

Accepted(p, raw) == p.annotation = "_empty" \/ Coerce(p.annotation, raw).ok

\* C12: for every placeholder that captured a segment and names a plain
\* parameter: when the query has a key of that name, a binding holds the
\* (coerced) query value, and the match is rejected when the type refuses the
\* query value, whatever the path segment is; when the query has no such key,
\* a binding holds the (coerced) path segment.  Rule '{x}' with x: int, path
\* /5 and query x=9 binds x to the integer 9.
QueryShadowsPath ==
  probe.done =>
    /\ \A pos \in ProbeCaptured : \A i \in ProbePlainNamed(ProbeRule.path_params[pos]) :
         LET p == ProbeSignature[i]
             q == probe.request.query
             seg == StrV(probe.request.path[pos])
         IN  IF p.name \in DOMAIN q
               THEN /\ probe.result.kind = "kwargs" =>
                         probe.result.kwargs[p.name] = Bound(p, q[p.name])
                    /\ ~Accepted(p, q[p.name]) => probe.result.kind = "None"
               ELSE probe.result.kind = "kwargs" =>
                         probe.result.kwargs[p.name] = Bound(p, seg)
    /\ ( /\ ProbeIs("Files_x", "GET", p_5)
         /\ probe.request.query = [k \in {s_x} |-> StrV(s_9)] ) =>
         /\ probe.result.kind = "kwargs"
         /\ probe.result.kwargs[s_x] = IntV(9)

\* '{x}' has bound x = 9 for path /5 and query x=9
QueryShadowsPathWitness ==
  /\ probe.done
  /\ ProbeIs("Files_x", "GET", p_5)
  /\ probe.request.query = [k \in {s_x} |-> StrV(s_9)]
  /\ ProbeCaptured = {1}
  /\ probe.result.kind = "kwargs"
  /\ probe.result.kwargs[s_x] = IntV(9)
  /\ probe.result.kwargs[s_x] # Bound(ProbeSignature[2], StrV(probe.request.path[1]))

\* ------------------------------------------------------------------------
\* Properties of binding during a traversal
\* ------------------------------------------------------------------------

\* the rule of f passes the method, length and literal checks on the request
\* of the traversal and the declared type refuses the value looked up for one
\* of its plain parameters
CoercionRefused(f) ==
  LET self == slowapi_path_rule(f)
      sig == Funcs[f].signature
      map == DictUpdate(PathParams(self, request), request.query)
  IN  /\ request.method = self.method
      /\ LengthMatch(self, request)
      /\ PathNameMatch(self, request)
      /\ \E i \in 2..Len(sig) :
           /\ IsPlainParam(sig[i]) /\ sig[i].annotation # "_empty"
           /\ LookupIn(map, sig[i]).t # "None"
           /\ ~Coerce(sig[i].annotation, LookupIn(map, sig[i])).ok

RefusedSteps == {i \in 1..Len(trace) : trace[i].func # "" /\ CoercionRefused(trace[i].func)}

\* C13: the evaluation of a handler whose declared type refuses the value
\* found is a match that returns None: it neither raises nor invokes the
\* handler, and it leaves the aborted flag as it was; the traversal goes on
\* through the tree in order, and when it returns it has visited every
\* sub-router and every handler, the handlers that accept the request have
\* been invoked and their content is in the response.
CoercionSwallowed ==
  RefusedSteps # {} =>
    /\ \A i \in RefusedSteps :
         /\ trace[i].event = "nomatch"
         /\ i > 1 /\ trace[i].aborted = trace[i - 1].aborted
    /\ IsPrefix(TraceVisits, TreeVisits(trace[1].app))
    /\ result.kind = "response" =>
         /\ TraceVisits = TreeVisits(trace[1].app)
         /\ ~request.aborted => InvokedVisits = SelectSeq(TreeVisits(trace[1].app), VisitMatches)
         /\ result.response.content = InvokedContent

\* GET /items/abc: item (id: int) was refused, named, evaluated after it in
\* the same router, was invoked and its content returned
CoercionSwallowedWitness ==
  /\ result.kind = "response"
  /\ request.path = <<s_items, s_abc>>
  /\ \E i, j \in 1..Len(trace) :
       /\ i < j
       /\ i \in RefusedSteps /\ trace[i].func = "Multi_item"
       /\ trace[j].event = "invoke" /\ trace[j].func = "Multi_named" /\ SameVisit(i, j)
  /\ \E k \in 1..Len(result.response.content) : result.response.content[k] = "named"

\* the declared default of a parameter, None when it declares none
DeclaredDefault(p) == IF p.default.t # "_empty" THEN p.default ELSE PyNone

\* the plain parameters whose name the working map does not have
ProbeAbsent ==
  {i \in 2..Len(ProbeSignature) :
     IsPlainParam(ProbeSignature[i]) /\ ProbeSignature[i].name \notin DOMAIN ProbeWorkingMap}

\* every value the working map holds for a typed plain parameter is accepted
ProbeFoundAccepted ==
  \A i \in 2..Len(ProbeSignature) :
    LET p == ProbeSignature[i]
    IN  (IsPlainParam(p) /\ p.name \in DOMAIN ProbeWorkingMap) =>
          Accepted(p, ProbeWorkingMap[p.name])

\* C14: a plain parameter whose name is absent from the working map is bound
\* to exactly its declared default, or to None when it declares none; the
\* type is called only on values found in the path or the query, so the
\* absent parameters never make the match fail.
DefaultsBoundUnconverted ==
  probe.done =>
    /\ probe.result.kind = "kwargs" =>
         \A i \in ProbeAbsent :
           probe.result.kwargs[ProbeSignature[i].name] = DeclaredDefault(ProbeSignature[i])
    /\ ( /\ probe.request.method = ProbeRule.method /\ ~probe.request.aborted
         /\ LengthPolicy /\ LiteralsAgree
         /\ ProbeFoundAccepted /\ ~HasDocParam(probe.func) ) => probe.result.kind = "kwargs"

\* the request passes the method, path and plain-parameter checks of the rule
ProbePassesPlainChecks ==
  /\ ~probe.request.aborted
  /\ probe.request.method = ProbeRule.method
  /\ LengthPolicy /\ LiteralsAgree
  /\ ProbeValuesAccepted

\* the document parameter of the handler
ProbeDocParam ==
  LET i == CHOOSE i \in 2..Len(ProbeSignature) :
             ProbeSignature[i].annotation \in {"JSON", "DictJSON"}
  IN  ProbeSignature[i].name

\* C15: for a handler with a document parameter and a request that passes the
\* method, path and plain-parameter checks, match returns None when the
\* decoded value of the wrapper built from the body is None, and otherwise a
\* binding in which the parameter holds the wrapper; it does not raise.
DocumentBodyBinding ==
  (probe.done /\ HasDocParam(probe.func) /\ ProbePassesPlainChecks) =>
    IF DocValue(probe.request.body).t = "None"
      THEN probe.result.kind = "None"
      ELSE /\ probe.result.kind = "kwargs"
           /\ probe.result.kwargs[ProbeDocParam] = [t |-> "JSON", v |-> probe.request.body.v]

\* ------------------------------------------------------------------------
\* Properties of the decorators
\* ------------------------------------------------------------------------

\* the Route Descriptor the first decorator applied builds
FirstAttachment ==
  LET first == attach.decorators[1]
  IN  PathRule(first.path_rule, DecoratorMethod(first.kind), attach.signature,
               first.status_code)

\* C16: however many decorators are applied to a function, with whatever
\* patterns, methods and status codes, the function carries one Route
\* Descriptor, the one built by the first decorator applied (pattern, method,
\* status code and parameter plan); it carries none before the first; and the
\* collection of App.__init__ lists the function once if it carries a rule
\* and not at all otherwise.
AttachmentIdempotent ==
  /\ attach.applied = 0 => ~attach.attrs.has_rule
  /\ attach.applied >= 1 =>
       /\ attach.attrs.has_rule
       /\ attach.attrs.slowapi_path_rule = FirstAttachment
  /\ attach.collected =>
       attach.handlers = (IF Len(attach.decorators) >= 1 THEN <<"func">> ELSE <<>>)

\* three decorators of different methods, patterns and status codes were
\* applied and the function was collected
AttachmentIdempotentWitness ==
  /\ attach.collected
  /\ attach.applied = 3
  /\ attach.decorators[1].kind = "get" /\ attach.decorators[1].path_rule = r_items
  /\ attach.decorators[1].status_code = 203
  /\ attach.decorators[2].kind = "post" /\ attach.decorators[2].path_rule = r_hello
  /\ attach.decorators[3].kind = "delete"
  /\ Len(attach.signature) = 2
  /\ attach.attrs.slowapi_path_rule.method = "GET"
  /\ attach.attrs.slowapi_path_rule.status_code = 203
  /\ attach.handlers = <<"func">>

\* ------------------------------------------------------------------------
\* Properties of the lazy initialisation
\* ------------------------------------------------------------------------

\* the lists of the router hold what the composition calls on it gave it
ListsKept(a) ==
  /\ slowapi_prepended_apps[a] = Reverse(calls[a].prepend)
  /\ slowapi_appended_apps[a] = calls[a].append

\* a call of slowapi, slowapi_prepend or slowapi_append was made on the router
CalledOn(a) ==
  \/ \E i \in 1..Len(trace) : trace[i].app = a /\ trace[i].func = ""
  \/ calls[a].prepend # <<>>
  \/ calls[a].append # <<>>

\* C17: a call of slowapi, slowapi_prepend or slowapi_append on a router that
\* was never set up sets its lists up and completes: it raises neither for a
\* missing list nor for an initialisation that does not end; the router has
\* its lists from then on, and they hold every sub-router given to it.
LazyInitCompletes ==
  /\ result.exc \notin {"AttributeError", "RecursionError"}
  /\ \A a \in NeverSetUp : CalledOn(a) => a \in initialised
  /\ \A a \in Apps : ListsKept(a)

\* ------------------------------------------------------------------------
\* Frame properties
\* ------------------------------------------------------------------------

\* the list and dict arguments of the binding are objects of their own that
\* equal the path and the query of the request
ArgumentsAreCopies(kwargs) ==
  \A k \in DOMAIN kwargs :
    /\ kwargs[k].t = "list" => (~kwargs[k].shared /\ kwargs[k].v = request.path)
    /\ kwargs[k].t = "dict" => (~kwargs[k].shared /\ kwargs[k].v = request.query)

\* C18: a match, whether it returns a binding or None, leaves the request
\* as it is; the list and dict arguments of a binding are copies of the path
\* and the query; and no step of a traversal, the invocation of a handler
\* that empties its list and dict arguments included, changes the method, the
\* path, the query or the body of the request, so every later descriptor is
\* evaluated against the same path and query.
RequestUntouched ==
  /\ [](AtHandler => (CurrentMatch.kind = "kwargs" => ArgumentsAreCopies(CurrentMatch.kwargs)))
  /\ [][ /\ (AtHandler /\ CurrentMatch.kind = "None") => request' = request
         /\ stack # <<>> => [request' EXCEPT !.aborted = request.aborted] = request
       ]_vars

\* GET /items/abc: keys was invoked and emptied its arguments, and named,
\* evaluated after it in the same router, still bound the path and was invoked
RequestUntouchedWitness ==
  /\ result.kind = "response"
  /\ request.path = <<s_items, s_abc>>
  /\ \E i, j \in 1..Len(trace) :
       /\ i < j /\ SameVisit(i, j)
       /\ trace[i].event = "invoke" /\ trace[i].func = "Multi_keys"
       /\ trace[j].event = "invoke" /\ trace[j].func = "Multi_named"

\* one router got one sub-router at the front of its prepended list
OnePrepended ==
  \E a \in Apps, x \in Apps :
    slowapi_prepended_apps' = [slowapi_prepended_apps EXCEPT ![a] = <<x>> \o @]

\* one router got one sub-router at the back of its appended list
OneAppended ==
  \E a \in Apps, x \in Apps :
    slowapi_appended_apps' = [slowapi_appended_apps EXCEPT ![a] = Append(@, x)]

\* C19: no step of a traversal of initialised routers, its start and its
\* return included, changes the handler list, the prepended list or the
\* appended list of any router, so a traversal always follows the lists as
\* they were when it started; the handler lists never change; and a step that
\* changes a list is one slowapi_prepend or slowapi_append: it changes one
\* list of one router, by one sub-router at the front of the prepended list
\* or at the back of the appended list.
TreeReadOnly ==
  /\ [](trace # <<>> => IsPrefix(TraceVisits, TreeVisits(trace[1].app)))
  /\ [][ /\ (stack # <<>> \/ stack' # <<>>) =>
              UNCHANGED <<initialised, slowapi_handlers, slowapi_prepended_apps,
                          slowapi_appended_apps>>
         /\ slowapi_handlers' = slowapi_handlers
         /\ \/ UNCHANGED <<slowapi_prepended_apps, slowapi_appended_apps>>
            \/ OnePrepended /\ UNCHANGED slowapi_appended_apps
            \/ OneAppended /\ UNCHANGED slowapi_prepended_apps
       ]_vars

\* a traversal has returned from a tree with a prepended sub-router that has
\* an appended sub-router of its own, and the lists are what the composition
\* calls made them
TreeReadOnlyWitness ==
  /\ result.kind = "response"
  /\ Len(slowapi_prepended_apps[Root]) = 1
  /\ Len(slowapi_appended_apps[slowapi_prepended_apps[Root][1]]) = 1
  /\ \A a \in Apps : ListsKept(a)
  /\ Len(trace) >= 5

\* the router can be reached from itself through the prepended and appended
\* lists
ReachableFromItself(a) == a \in ReachableIn(SubApps(a), Cardinality(Apps))

\* the tree under the root of the traversal has no such router
Acyclic == \A a \in Descendants(Root) : ~ReachableFromItself(a)

Traversing == stack # <<>>

IsEnter(e) == e.event = "enter"

\* the routers entered by the traversal, in order
Entered == [i \in 1..Len(SelectSeq(trace, IsEnter)) |-> SelectSeq(trace, IsEnter)[i].app]

IsRouterVisit(v) == v.func = ""

\* the occurrences of routers in the tree, in traversal order
Occurrences ==
  [i \in 1..Len(SelectSeq(TreeVisits(Root), IsRouterVisit)) |->
     SelectSeq(TreeVisits(Root), IsRouterVisit)[i].app]

\* the traversal was ended by RecursionError at the recursion limit, or
\* before that by an exception out of the matching of a handler
EndedByRecursionOrMatch ==
  /\ result.kind = "raise"
  /\ \/ result.exc = "RecursionError" /\ Len(Entered) >= RecursionLimit
     \/ trace[Len(trace)].func # ""

\* C20: a traversal of an acyclic tree ends, and without RecursionError; a
\* traversal that has returned a response ran on an acyclic tree and entered
\* the routers of the tree once per occurrence, in traversal order, whether
\* or not the request was aborted on the way; a traversal of a tree with a
\* router reachable from itself never returns: it nests calls up to the
\* interpreter's recursion limit, where RecursionError ends it, unless the
\* matching of a handler raised before that.
TraversalTerminationAndCoverage ==
  /\ [](result.kind = "response" => (Acyclic /\ Entered = Occurrences))
  /\ (Traversing /\ Acyclic) ~> (~Traversing /\ result.exc # "RecursionError")
  /\ (Traversing /\ ~Acyclic) ~> (~Traversing /\ EndedByRecursionOrMatch)
  /\ [][(Traversing /\ ~Acyclic) => result'.kind # "response"]_vars

\* a traversal has returned from a tree in which one sub-router occurs twice,
\* and a router was entered after the request was aborted
TraversalCoverageWitness ==
  /\ result.kind = "response"
  /\ request.aborted
  /\ \E i, j \in 1..Len(Entered) : i < j /\ Entered[i] = Entered[j]
  /\ \E i \in 1..Len(trace) : trace[i].event = "enter" /\ trace[i].aborted

====
